---- MODULE Spec2Model ----
(***************************************************************************)
(* Inventory allocation engine of the WMS module:                          *)
(*   InventoryService.reserveInventory / releaseReservedInventory          *)
(*   (server/lib/services, FEFO reservation and its reversal) and the      *)
(*   route handlers of server/routes/wms/inventoryItem.ts that write rows: *)
(*   POST /, PUT /:id, DELETE /:id and POST /:id/adjust.                   *)
(* The table wms_inventory_items is the only mutable state.  Every `await` *)
(* on the database is one statement.                                       *)
(*   Spec      reserve, release and adjust, each call run to completion,   *)
(*             from every table of valid rows                              *)
(*   SpecC     the statements of two concurrent calls interleaved          *)
(*   SpecU     one reserve, then a release for every entry it returned     *)
(*   SpecCrud  create, release and delete, from the empty table            *)
(*   SpecOps   every operation that writes rows, from the empty table      *)
(*   SpecQ     one read-only query (totals, low stock, expiring rows)      *)
(***************************************************************************)
EXTENDS Integers, Sequences, FiniteSets, TLC

\* ------------------------------------------------------------------ bounds
MaxItems == 2      \* rows in wms_inventory_items
MaxStock == 2      \* cap on the units the whole table holds

\* --------------------------------------------------------------- constants
NULL == 0                  \* SQL NULL of the nullable expiry_date column
MaxReasonLen == 500        \* z.string().max(500)
MinAdjustQuantity == 1     \* z.number().int().min(1)

Tenants  == {"t1", "t2"}
Products == {"p1", "p2"}
\* wms_products rows: product id -> tenant_id (tenant t2 has no product yet)
products == [p \in Products |-> "t1"]

ItemIds  == 1..MaxItems
\* calendar dates: only their order matters, so one per row is enough
Dates    == 1..MaxItems
QtyArgs  == (0 - 1)..MaxStock
\* adjust request bodies: <<quantity, length of reason>>
AdjustBodies ==
  {<<q, 1>> : q \in 0..MaxStock} \cup {<<1, 0>>, <<1, MaxReasonLen>>, <<1, MaxReasonLen + 1>>}
Procs    == {1, 2}

VARIABLES
  inventoryItems,   \* the table: id -> row
  last,             \* outcome of the last completed call (Spec)
  store0,           \* the table when the concurrent calls started (SpecC)
  call,             \* per request: the operation and its arguments (SpecC)
  pc,               \* per request: position in its handler (SpecC)
  loc,              \* per request: the handler's local variables (SpecC)
  ret,              \* per request: what the handler returned or threw (SpecC)
  movementHistory   \* the table wms_movement_history: the rows inserted so far

vars == <<inventoryItems, last, store0, call, pc, loc, ret, movementHistory>>
concVars == <<store0, call, pc, loc, ret>>

\* ----------------------------------------------------------------- helpers
Min(a, b) == IF a < b THEN a ELSE b

RECURSIVE SumOver(_, _, _)
SumOver(tbl, ids, field) ==
  IF ids = {} THEN 0
  ELSE LET i == CHOOSE x \in ids : TRUE
       IN (IF field = "available" THEN tbl[i].availableQuantity
                                  ELSE tbl[i].reservedQuantity)
          + SumOver(tbl, ids \ {i}, field)

RowsOf(tbl, productId, tenantId) ==
  {i \in DOMAIN tbl : tbl[i].productId = productId /\ tbl[i].tenantId = tenantId}

TotalAvailable(tbl, productId, tenantId) ==
  SumOver(tbl, RowsOf(tbl, productId, tenantId), "available")

TotalReserved(tbl, productId, tenantId) ==
  SumOver(tbl, RowsOf(tbl, productId, tenantId), "reserved")

\* availableQuantity + reservedQuantity over the rows of one product
ProductStock(tbl, productId) ==
  LET ids == {i \in DOMAIN tbl : tbl[i].productId = productId}
  IN SumOver(tbl, ids, "available") + SumOver(tbl, ids, "reserved")

Abs(n) == IF n < 0 THEN 0 - n ELSE n

\* the units the table holds, a quantity below zero counted by its size
RECURSIVE TableStock(_)
TableStock(tbl) ==
  IF DOMAIN tbl = {} THEN 0
  ELSE LET i == CHOOSE x \in DOMAIN tbl : TRUE
       IN Abs(tbl[i].availableQuantity) + Abs(tbl[i].reservedQuantity)
          + TableStock([j \in DOMAIN tbl \ {i} |-> tbl[j]])

\* ------------------------------------------------------------- the table
InventoryItem ==
  [tenantId : Tenants, productId : Products,
   availableQuantity : 0..MaxStock, reservedQuantity : 0..MaxStock,
   expiryDate : {NULL} \cup Dates]

\* a row as the create and edit schemas let it in
ValidRow(r) ==
  /\ products[r.productId] = r.tenantId
  /\ r.availableQuantity >= 0
  /\ r.reservedQuantity >= 0
  /\ r.availableQuantity + r.reservedQuantity <= MaxStock

\* Row ids are opaque (gen_random_uuid): two tables that differ only in which
\* id names which row behave alike, so one table of each such class is kept,
\* the one whose rows are in RowRank order.
RowRank(r) ==
  (((IF r.productId = "p1" THEN 0 ELSE 1) * (MaxItems + 1) + r.expiryDate)
     * (MaxStock + 1) + r.availableQuantity) * (MaxStock + 1) + r.reservedQuantity

Stores ==
  UNION {{t \in [1..n -> {r \in InventoryItem : ValidRow(r)}] :
            /\ TableStock(t) <= MaxStock
            /\ \A i \in 1..(n - 1) : RowRank(t[i]) <= RowRank(t[i + 1])} :
         n \in 0..MaxItems}

\* db.update(inventoryItems).set(...).where(eq(inventoryItems.id, id))
UpdateQuantities(tbl, id, available, reserved) ==
  IF id \in DOMAIN tbl
  THEN [tbl EXCEPT ![id].availableQuantity = available,
                   ![id].reservedQuantity = reserved]
  ELSE tbl

\* What a call hands back: a return value or response body (status "ok"),
\* or the kind of the Error thrown or of the error response sent.
Outcome(op, status) ==
  [op |-> op, status |-> status, reservations |-> <<>>,
   remainingQuantity |-> 0, id |-> 0, adjustmentType |-> "none",
   quantity |-> 0]

\* ------------------------------------------------------- reserveInventory
\* slip: ORDER BY expiry_date ASC NULLS FIRST
OrderedBefore_NullsFirst(e1, e2) ==
  /\ e2 # NULL
  /\ (e1 = NULL \/ e1 < e2)

\* ORDER BY expiry_date ASC NULLS LAST: r1 is placed strictly before r2
OrderedBefore(e1, e2) ==
  /\ e1 # NULL
  /\ (e2 = NULL \/ e1 < e2)

\* slip: the SELECT has no `availableQuantity > 0` condition
Candidates_AnyQuantity(tbl, productId, tenantId) ==
  RowsOf(tbl, productId, tenantId)

\* The rows of the SELECT: product and tenant match, availableQuantity > 0.
Candidates(tbl, productId, tenantId) ==
  {i \in RowsOf(tbl, productId, tenantId) : tbl[i].availableQuantity > 0}

\* Every result list the SELECT may return: the candidates in expiry order,
\* rows of equal expiry (or both without one) in any order.
availableItems(tbl, productId, tenantId) ==
  LET c == Candidates(tbl, productId, tenantId)
      n == Cardinality(c)
  IN {[k \in 1..n |-> [id |-> s[k],
                       availableQuantity |-> tbl[s[k]].availableQuantity,
                       reservedQuantity |-> tbl[s[k]].reservedQuantity]] :
        s \in {q \in [1..n -> c] :
                 /\ \A a, b \in 1..n : a # b => q[a] # q[b]
                 /\ \A a, b \in 1..n :
                      a < b => ~OrderedBefore(tbl[q[b]].expiryDate,
                                              tbl[q[a]].expiryDate)}}

\* slip: the UPDATE takes the units off availableQuantity and leaves
\* reservedQuantity as it was
LoopBody_ReservedNotRaised(tbl, item, remainingQuantity, reservations) ==
  LET toReserve == Min(remainingQuantity, item.availableQuantity)
  IN [tbl |-> UpdateQuantities(tbl, item.id,
                               item.availableQuantity - toReserve,
                               item.reservedQuantity),
      remainingQuantity |-> remainingQuantity - toReserve,
      reservations |-> Append(reservations,
                              [inventoryItemId |-> item.id,
                               quantity |-> toReserve])]

\* slip: the entry of the result list carries the row's availableQuantity
\* instead of the units taken from it
LoopBody_RecordsAvailable(tbl, item, remainingQuantity, reservations) ==
  LET toReserve == Min(remainingQuantity, item.availableQuantity)
  IN [tbl |-> UpdateQuantities(tbl, item.id,
                               item.availableQuantity - toReserve,
                               item.reservedQuantity + toReserve),
      remainingQuantity |-> remainingQuantity - toReserve,
      reservations |-> Append(reservations,
                              [inventoryItemId |-> item.id,
                               quantity |-> item.availableQuantity])]

\* One pass of the for loop body on `item`, the snapshot read by the SELECT.
LoopBody(tbl, item, remainingQuantity, reservations) ==
  LET toReserve == Min(remainingQuantity, item.availableQuantity)
  IN [tbl |-> UpdateQuantities(tbl, item.id,
                               item.availableQuantity - toReserve,
                               item.reservedQuantity + toReserve),
      remainingQuantity |-> remainingQuantity - toReserve,
      reservations |-> Append(reservations,
                              [inventoryItemId |-> item.id,
                               quantity |-> toReserve])]

\* The for loop from position k on, with its break.
RECURSIVE ReserveLoop(_, _, _, _, _)
ReserveLoop(tbl, items, k, remainingQuantity, reservations) ==
  IF k > Len(items) \/ remainingQuantity <= 0
  THEN [tbl |-> tbl, remainingQuantity |-> remainingQuantity,
        reservations |-> reservations]
  ELSE LET b == LoopBody(tbl, items[k], remainingQuantity, reservations)
       IN ReserveLoop(b.tbl, items, k + 1, b.remainingQuantity, b.reservations)

\* slip: the Error is thrown without the units it could not reserve
ReserveOutcome_NoShortfall(remainingQuantity, reservations) ==
  IF remainingQuantity > 0
  THEN Outcome("reserve", "InsufficientStock")
  ELSE [Outcome("reserve", "ok") EXCEPT !.reservations = reservations]

\* What the call hands back once the loop is over: the list, or the Error
\* whose message carries the units it could not reserve.
ReserveOutcome(remainingQuantity, reservations) ==
  IF remainingQuantity > 0
  THEN [Outcome("reserve", "InsufficientStock")
          EXCEPT !.remainingQuantity = remainingQuantity]
  ELSE [Outcome("reserve", "ok") EXCEPT !.reservations = reservations]

reserveInventory(productId, quantity, tenantId) ==
  /\ last.op = "none"
  /\ \E items \in availableItems(inventoryItems, productId, tenantId) :
       LET r == ReserveLoop(inventoryItems, items, 1, quantity, <<>>)
       IN /\ inventoryItems' = r.tbl
          /\ last' = ReserveOutcome(r.remainingQuantity, r.reservations)
          /\ UNCHANGED <<concVars, movementHistory>>

\* ----------------------------------------------- releaseReservedInventory
\* slip: the guard on reservedQuantity is left out
ReleaseStatus_NoReservedCheck(tbl, inventoryItemId, quantity) ==
  IF inventoryItemId \notin DOMAIN tbl THEN "NotFound"
  ELSE "ok"

\* the two throws ahead of the UPDATE
ReleaseStatus(tbl, inventoryItemId, quantity) ==
  IF inventoryItemId \notin DOMAIN tbl THEN "NotFound"
  ELSE IF tbl[inventoryItemId].reservedQuantity < quantity THEN "InvalidArgument"
  ELSE "ok"

\* slip: the UPDATE has no WHERE clause
ReleaseUpdate_NoWhere(tbl, item, inventoryItemId, quantity) ==
  [i \in DOMAIN tbl |->
     [tbl[i] EXCEPT !.availableQuantity = item.availableQuantity + quantity,
                    !.reservedQuantity = item.reservedQuantity - quantity]]

\* db.update(...).set({available + quantity, reserved - quantity}).where(id)
ReleaseUpdate(tbl, item, inventoryItemId, quantity) ==
  UpdateQuantities(tbl, inventoryItemId,
                   item.availableQuantity + quantity,
                   item.reservedQuantity - quantity)

releaseReservedInventory(inventoryItemId, quantity) ==
  LET status == ReleaseStatus(inventoryItems, inventoryItemId, quantity)
  IN /\ last.op = "none"
     /\ inventoryItems' =
          IF status = "ok"
          THEN ReleaseUpdate(inventoryItems, inventoryItems[inventoryItemId],
                             inventoryItemId, quantity)
          ELSE inventoryItems
     /\ TableStock(inventoryItems') <= MaxStock
     /\ last' = Outcome("release", status)
     /\ UNCHANGED <<concVars, movementHistory>>

\* ------------------------------------------------------ POST /:id/adjust
\* slip: the schema has no .max(500) on reason
AdjustmentValid_NoMax(quantity, reasonLen) ==
  /\ quantity >= MinAdjustQuantity
  /\ reasonLen >= 1

\* inventoryAdjustmentSchema.parseAsync
AdjustmentValid(quantity, reasonLen) ==
  /\ quantity >= MinAdjustQuantity
  /\ reasonLen >= 1
  /\ reasonLen <= MaxReasonLen

\* slip: the SELECT looks the row up by id alone
ExistingItem_AnyTenant(tbl, id, activeTenantId) ==
  id \in DOMAIN tbl

\* SELECT ... WHERE id = :id AND tenant_id = activeTenantId
ExistingItem(tbl, id, activeTenantId) ==
  id \in DOMAIN tbl /\ tbl[id].tenantId = activeTenantId

NewQuantity(currentQuantity, adjustmentType, quantity) ==
  IF adjustmentType = "increase" THEN currentQuantity + quantity
                                 ELSE currentQuantity - quantity

\* slip: the decrease is turned down when it would leave 0 (newQuantity <= 0)
AdjustStatus_RejectsZero(tbl, id, activeTenantId, adjustmentType, quantity, reasonLen) ==
  IF ~AdjustmentValid(quantity, reasonLen) THEN "InvalidArgument"
  ELSE IF ~ExistingItem(tbl, id, activeTenantId) THEN "NotFound"
  ELSE IF /\ adjustmentType = "decrease"
          /\ NewQuantity(tbl[id].availableQuantity, adjustmentType, quantity) <= 0
       THEN "InsufficientStock"
  ELSE "ok"

\* the three early returns ahead of the UPDATE
AdjustStatus(tbl, id, activeTenantId, adjustmentType, quantity, reasonLen) ==
  IF ~AdjustmentValid(quantity, reasonLen) THEN "InvalidArgument"
  ELSE IF ~ExistingItem(tbl, id, activeTenantId) THEN "NotFound"
  ELSE IF NewQuantity(tbl[id].availableQuantity, adjustmentType, quantity) < 0
       THEN "InsufficientStock"
  ELSE "ok"

\* slip: the UPDATE also sets reservedQuantity to 0
AdjustUpdate_ResetsReserved(tbl, id, newQuantity) ==
  UpdateQuantities(tbl, id, newQuantity, 0)

\* db.update(inventoryItems).set({ availableQuantity: newQuantity })
AdjustUpdate(tbl, id, newQuantity) ==
  IF id \in DOMAIN tbl
  THEN [tbl EXCEPT ![id].availableQuantity = newQuantity]
  ELSE tbl

\* res.json: on success the updated row and the message
\* `Inventory ${adjustmentType}d by ${quantity} units. ...`
AdjustOutcome(status, id, adjustmentType, quantity) ==
  IF status = "ok"
  THEN [Outcome("adjust", "ok") EXCEPT !.id = id,
                                       !.adjustmentType = adjustmentType,
                                       !.quantity = quantity]
  ELSE Outcome("adjust", status)

\* The handler from the table it finds: the table it leaves and its response.
AdjustResult(tbl, id, activeTenantId, adjustmentType, quantity, reasonLen) ==
  LET status == AdjustStatus(tbl, id, activeTenantId,
                             adjustmentType, quantity, reasonLen)
  IN [tbl |-> IF status = "ok"
              THEN AdjustUpdate(tbl, id,
                     NewQuantity(tbl[id].availableQuantity,
                                 adjustmentType, quantity))
              ELSE tbl,
      response |-> AdjustOutcome(status, id, adjustmentType, quantity)]

\* No row of wms_movement_history is written: the handler has a TODO in the
\* place of the insert.
adjust(id, activeTenantId, adjustmentType, quantity, reasonLen) ==
  LET r == AdjustResult(inventoryItems, id, activeTenantId,
                        adjustmentType, quantity, reasonLen)
  IN /\ last.op = "none"
     /\ inventoryItems' = r.tbl
     /\ TableStock(inventoryItems') <= MaxStock
     /\ last' = r.response
     /\ UNCHANGED <<concVars, movementHistory>>

\* ------------------------------------------------------------------- Spec
NoCall == Outcome("none", "none")

NoRequest == [op |-> "none", productId |-> "none", tenantId |-> "none",
              id |-> 0, quantity |-> 0, adjustmentType |-> "none"]

NoLocals == [items |-> <<>>, k |-> 0, remainingQuantity |-> 0,
             reservations |-> <<>>, item |-> <<>>, newQuantity |-> 0]

\* no request is being served
Quiet ==
  /\ call = [p \in Procs |-> NoRequest]
  /\ pc = [p \in Procs |-> "idle"]
  /\ loc = [p \in Procs |-> NoLocals]
  /\ ret = [p \in Procs |-> NoCall]

Init ==
  /\ inventoryItems \in Stores
  /\ last = NoCall
  /\ store0 = <<>>
  /\ movementHistory = <<>>
  /\ Quiet

Reserve ==
  \E productId \in Products, quantity \in QtyArgs, tenantId \in Tenants :
    reserveInventory(productId, quantity, tenantId)

Release ==
  \E inventoryItemId \in ItemIds, quantity \in QtyArgs :
    releaseReservedInventory(inventoryItemId, quantity)

Adjust ==
  \E id \in ItemIds, activeTenantId \in Tenants,
     adjustmentType \in {"increase", "decrease"}, body \in AdjustBodies :
    adjust(id, activeTenantId, adjustmentType, body[1], body[2])

\* The caller takes the result; the next call starts after that.
Respond ==
  /\ last.op # "none"
  /\ last' = NoCall
  /\ UNCHANGED <<inventoryItems, concVars, movementHistory>>

Next == Reserve \/ Release \/ Adjust \/ Respond

Spec == Init /\ [][Next]_vars

\* ---------------------------------------- POST /, PUT /:id, DELETE /:id
\* wms_bins rows: bin id -> tenant_id
Bins == {"b1"}
bins == [b \in Bins |-> "t1"]

\* batch_number and lot_number: SQL NULL (a request that leaves the field
\* out or sends null), the empty string, or a label
NoLabel == "<null>"
BatchNumbers == {NoLabel, "", "L1"}
LotNumbers   == {NoLabel, ""}

\* `data.batchNumber || null`
OrNull(label) == IF label \in {NoLabel, ""} THEN NoLabel ELSE label

\* slip: the column is compared with eq() also when the request has no
\* label (`batch_number = NULL` matches no row)
LabelMatches_EqOnly(column, label) ==
  label # NoLabel /\ column = label

\* data.batchNumber ? eq(column, data.batchNumber) : sql`column IS NULL`
LabelMatches(column, label) ==
  IF label \in {NoLabel, ""} THEN column = NoLabel ELSE column = label

\* the rows the third refine of inventoryItemAddSchema selects
ExistingCombination(tbl, data) ==
  {i \in DOMAIN tbl :
     /\ tbl[i].productId = data.productId
     /\ tbl[i].binId = data.binId
     /\ tbl[i].tenantId = data.tenantId
     /\ LabelMatches(tbl[i].batchNumber, data.batchNumber)
     /\ LabelMatches(tbl[i].lotNumber, data.lotNumber)}

\* inventoryItemAddSchema.parseAsync(fullData): the field rules and the
\* three refines (product of the tenant, bin of the tenant, no such row yet)
AddValid(tbl, data) ==
  /\ data.availableQuantity >= 0
  /\ data.reservedQuantity >= 0
  /\ products[data.productId] = data.tenantId
  /\ bins[data.binId] = data.tenantId
  /\ ExistingCombination(tbl, data) = {}

\* the row db.insert(inventoryItems).values({...}) writes
NewRow(data) ==
  [tenantId |-> data.tenantId, productId |-> data.productId,
   binId |-> data.binId,
   availableQuantity |-> data.availableQuantity,
   reservedQuantity |-> data.reservedQuantity,
   expiryDate |-> NULL,
   batchNumber |-> OrNull(data.batchNumber),
   lotNumber |-> OrNull(data.lotNumber)]

\* id uuid DEFAULT gen_random_uuid(): a fresh id; ids are opaque, so the
\* least free one stands for all
NewId(tbl) == CHOOSE i \in ItemIds \ DOMAIN tbl :
                \A j \in ItemIds \ DOMAIN tbl : i <= j

\* POST /: the table the handler leaves and its response
CreateResult(tbl, activeTenantId, body) ==
  LET fullData == [body EXCEPT !.tenantId = activeTenantId]
  IN IF AddValid(tbl, fullData)
     THEN [tbl |-> [i \in DOMAIN tbl \cup {NewId(tbl)} |->
                      IF i \in DOMAIN tbl THEN tbl[i] ELSE NewRow(fullData)],
           response |-> [Outcome("create", "ok") EXCEPT !.id = NewId(tbl)]]
     ELSE [tbl |-> tbl, response |-> Outcome("create", "InvalidArgument")]

createItem(activeTenantId, body) ==
  /\ last.op = "none"
  /\ Cardinality(DOMAIN inventoryItems) < MaxItems
  /\ LET r == CreateResult(inventoryItems, activeTenantId, body)
     IN /\ inventoryItems' = r.tbl
        /\ TableStock(inventoryItems') <= MaxStock
        /\ last' = r.response
  /\ UNCHANGED <<concVars, movementHistory>>

\* inventoryItemEditSchema, applied by validateData ahead of the handler
EditValid(body) ==
  /\ body.availableQuantity >= 0
  /\ body.reservedQuantity >= 0

\* "<absent>": the body has no productId and the column is left as it is
NoProduct == "<absent>"

\* db.update(inventoryItems).set({...}).where(eq(inventoryItems.id, id))
EditUpdate(tbl, id, body) ==
  [tbl EXCEPT ![id] =
     [@ EXCEPT !.productId = IF body.productId = NoProduct THEN @
                             ELSE body.productId,
               !.binId = body.binId,
               !.availableQuantity = body.availableQuantity,
               !.reservedQuantity = body.reservedQuantity,
               !.expiryDate = NULL,
               !.batchNumber = OrNull(body.batchNumber),
               !.lotNumber = OrNull(body.lotNumber)]]

EditStatus(tbl, id, activeTenantId, body) ==
  IF ~EditValid(body) THEN "InvalidArgument"
  ELSE IF ~ExistingItem(tbl, id, activeTenantId) THEN "NotFound"
  ELSE "ok"

editItem(id, activeTenantId, body) ==
  LET status == EditStatus(inventoryItems, id, activeTenantId, body)
  IN /\ last.op = "none"
     /\ inventoryItems' = IF status = "ok"
                          THEN EditUpdate(inventoryItems, id, body)
                          ELSE inventoryItems
     /\ TableStock(inventoryItems') <= MaxStock
     /\ last' = [Outcome("edit", status) EXCEPT
                   !.id = IF status = "ok" THEN id ELSE 0]
     /\ UNCHANGED <<concVars, movementHistory>>

\* slip: the guard looks at availableQuantity only
DeleteStatus_OnlyAvailable(tbl, id, activeTenantId) ==
  IF ~ExistingItem(tbl, id, activeTenantId) THEN "NotFound"
  ELSE IF tbl[id].availableQuantity > 0 THEN "HasStock"
  ELSE "ok"

\* the 404 and the 400 'Cannot delete inventory item with remaining stock'
DeleteStatus(tbl, id, activeTenantId) ==
  IF ~ExistingItem(tbl, id, activeTenantId) THEN "NotFound"
  ELSE IF tbl[id].availableQuantity > 0 \/ tbl[id].reservedQuantity > 0
       THEN "HasStock"
  ELSE "ok"

deleteItem(id, activeTenantId) ==
  LET status == DeleteStatus(inventoryItems, id, activeTenantId)
  IN /\ last.op = "none"
     /\ inventoryItems' = IF status = "ok"
                          THEN [i \in DOMAIN inventoryItems \ {id} |->
                                  inventoryItems[i]]
                          ELSE inventoryItems
     /\ last' = Outcome("delete", status)
     /\ UNCHANGED <<concVars, movementHistory>>

\* --------------------------------------------------------------- SpecCrud
\* The table from empty on: rows are created, their reservations released,
\* and deleted, one call at a time.
\* request bodies of POST / and PUT /:id
ItemQuantities ==
  {<<a, 0>> : a \in (0 - 1)..MaxStock} \cup {<<0, r>> : r \in 1..MaxStock}

CreateBodies ==
  {[tenantId |-> "none", productId |-> p, binId |-> b,
    availableQuantity |-> q[1], reservedQuantity |-> q[2],
    batchNumber |-> bn, lotNumber |-> ln] :
     p \in Products, b \in Bins, q \in ItemQuantities,
     bn \in BatchNumbers, ln \in LotNumbers}

EditBodies ==
  {[productId |-> p, binId |-> b,
    availableQuantity |-> q[1], reservedQuantity |-> q[2],
    batchNumber |-> bn, lotNumber |-> ln] :
     p \in {NoProduct} \cup Products, b \in Bins, q \in ItemQuantities,
     bn \in BatchNumbers, ln \in LotNumbers}

InitCrud ==
  /\ inventoryItems = <<>>
  /\ last = NoCall
  /\ store0 = <<>>
  /\ movementHistory = <<>>
  /\ Quiet

Create ==
  \E activeTenantId \in Tenants, body \in CreateBodies :
    createItem(activeTenantId, body)

Edit ==
  \E id \in ItemIds, activeTenantId \in Tenants, body \in EditBodies :
    editItem(id, activeTenantId, body)

Delete ==
  \E id \in ItemIds, activeTenantId \in Tenants : deleteItem(id, activeTenantId)

NextCrud == Create \/ Delete \/ Release \/ Respond

SpecCrud == InitCrud /\ [][NextCrud]_vars

\* ---------------------------------------------------------------- SpecOps
\* The same, with every operation that changes rows.
NextOps ==
  Create \/ Edit \/ Delete \/ Reserve \/ Release \/ Adjust \/ Respond

SpecOps == InitCrud /\ [][NextOps]_vars

\* ---------------------------------------------- getTotalStockForProduct
\* drizzle's sum(): SQL NULL over no rows, else the total as a numeric string
SqlNull == <<>>
NumericString(n) == <<n>>

SqlSum(tbl, ids, field) ==
  IF ids = {} THEN SqlNull ELSE NumericString(SumOver(tbl, ids, field))

getTotalStockForProduct(tbl, productId, tenantId) ==
  [totalAvailable |-> SqlSum(tbl, RowsOf(tbl, productId, tenantId), "available"),
   totalReserved  |-> SqlSum(tbl, RowsOf(tbl, productId, tenantId), "reserved")]

\* ------------------------------------------------------------------ SpecC
\* Two requests served concurrently: each database statement is one step,
\* and the steps of the two handlers interleave at every await.
CallQty == 1..MaxStock

\* the requests: all on product p1 of tenant t1
Requests ==
  {[op |-> "reserve", productId |-> "p1", tenantId |-> "t1", id |-> 0,
    quantity |-> q, adjustmentType |-> "none"] : q \in CallQty}
  \cup
  {[op |-> "release", productId |-> "p1", tenantId |-> "t1", id |-> i,
    quantity |-> q, adjustmentType |-> "none"] : i \in ItemIds, q \in CallQty}
  \cup
  {[op |-> "adjust", productId |-> "p1", tenantId |-> "t1", id |-> i,
    quantity |-> q, adjustmentType |-> ty] :
      i \in ItemIds, q \in CallQty, ty \in {"increase", "decrease"}}
  \cup
  {[op |-> "total", productId |-> "p1", tenantId |-> "t1", id |-> 0,
    quantity |-> 0, adjustmentType |-> "none"]}
  \cup
  {[op |-> "delete", productId |-> "p1", tenantId |-> "t1", id |-> i,
    quantity |-> 0, adjustmentType |-> "none"] : i \in ItemIds}

\* stores whose rows all belong to product p1 and carry no expiry date
StoresC ==
  {t \in Stores : \A i \in DOMAIN t :
     t[i].productId = "p1" /\ t[i].expiryDate = NULL}

InitC ==
  /\ inventoryItems \in StoresC
  /\ store0 = inventoryItems
  /\ last = NoCall
  /\ movementHistory = <<>>
  /\ Quiet

Finish(p, outcome) ==
  /\ pc' = [pc EXCEPT ![p] = "done"]
  /\ loc' = [loc EXCEPT ![p] = NoLocals]
  /\ ret' = [ret EXCEPT ![p] = outcome]

\* a request arrives
Start(p) ==
  /\ pc[p] = "idle"
  /\ \E c \in Requests : call' = [call EXCEPT ![p] = c]
  /\ pc' = [pc EXCEPT ![p] = "select"]
  /\ UNCHANGED <<inventoryItems, last, store0, loc, ret, movementHistory>>

\* reserveInventory: the SELECT; the loop is entered unless it breaks at once
ReserveSelect(p) ==
  /\ pc[p] = "select"
  /\ call[p].op = "reserve"
  /\ \E items \in availableItems(inventoryItems, call[p].productId,
                                 call[p].tenantId) :
       IF Len(items) = 0 \/ call[p].quantity <= 0
       THEN Finish(p, ReserveOutcome(call[p].quantity, <<>>))
       ELSE /\ pc' = [pc EXCEPT ![p] = "loop"]
            /\ loc' = [loc EXCEPT ![p] =
                 [NoLocals EXCEPT !.items = items, !.k = 1,
                                  !.remainingQuantity = call[p].quantity]]
            /\ UNCHANGED ret
  /\ UNCHANGED <<inventoryItems, last, store0, call, movementHistory>>

\* reserveInventory: one UPDATE of the loop, written from the SELECT's values
ReserveUpdate(p) ==
  /\ pc[p] = "loop"
  /\ LET l == loc[p]
         b == LoopBody(inventoryItems, l.items[l.k], l.remainingQuantity,
                       l.reservations)
     IN /\ inventoryItems' = b.tbl
        /\ IF l.k + 1 > Len(l.items) \/ b.remainingQuantity <= 0
           THEN Finish(p, ReserveOutcome(b.remainingQuantity, b.reservations))
           ELSE /\ loc' = [loc EXCEPT ![p].k = l.k + 1,
                                      ![p].remainingQuantity = b.remainingQuantity,
                                      ![p].reservations = b.reservations]
                /\ UNCHANGED <<pc, ret>>
  /\ UNCHANGED <<last, store0, call, movementHistory>>

\* releaseReservedInventory: the SELECT and the two checks
ReleaseSelect(p) ==
  /\ pc[p] = "select"
  /\ call[p].op = "release"
  /\ LET status == ReleaseStatus(inventoryItems, call[p].id, call[p].quantity)
     IN IF status = "ok"
        THEN /\ pc' = [pc EXCEPT ![p] = "update"]
             /\ loc' = [loc EXCEPT ![p].item = inventoryItems[call[p].id]]
             /\ UNCHANGED ret
        ELSE Finish(p, Outcome("release", status))
  /\ UNCHANGED <<inventoryItems, last, store0, call, movementHistory>>

\* releaseReservedInventory: the UPDATE, written from the SELECT's values
ReleaseWrite(p) ==
  /\ pc[p] = "update"
  /\ call[p].op = "release"
  /\ inventoryItems' = ReleaseUpdate(inventoryItems, loc[p].item,
                                     call[p].id, call[p].quantity)
  /\ Finish(p, Outcome("release", "ok"))
  /\ UNCHANGED <<last, store0, call, movementHistory>>

\* POST /:id/adjust: validation, the SELECT and the stock guard
AdjustSelect(p) ==
  /\ pc[p] = "select"
  /\ call[p].op = "adjust"
  /\ LET status == AdjustStatus(inventoryItems, call[p].id, call[p].tenantId,
                                call[p].adjustmentType, call[p].quantity, 1)
     IN IF status = "ok"
        THEN /\ pc' = [pc EXCEPT ![p] = "update"]
             /\ loc' = [loc EXCEPT ![p].newQuantity =
                  NewQuantity(inventoryItems[call[p].id].availableQuantity,
                              call[p].adjustmentType, call[p].quantity)]
             /\ UNCHANGED ret
        ELSE Finish(p, AdjustOutcome(status, call[p].id,
                                     call[p].adjustmentType, call[p].quantity))
  /\ UNCHANGED <<inventoryItems, last, store0, call, movementHistory>>

\* POST /:id/adjust: the UPDATE of availableQuantity
AdjustWrite(p) ==
  /\ pc[p] = "update"
  /\ call[p].op = "adjust"
  /\ inventoryItems' = AdjustUpdate(inventoryItems, call[p].id,
                                    loc[p].newQuantity)
  /\ Finish(p, AdjustOutcome("ok", call[p].id, call[p].adjustmentType,
                              call[p].quantity))
  /\ UNCHANGED <<last, store0, call, movementHistory>>

\* getTotalStockForProduct: one SELECT
TotalStock(p) ==
  /\ pc[p] = "select"
  /\ call[p].op = "total"
  /\ Finish(p, getTotalStockForProduct(inventoryItems, call[p].productId,
                                       call[p].tenantId))
  /\ UNCHANGED <<inventoryItems, last, store0, call, movementHistory>>

\* DELETE /:id: the SELECT and the two checks
DeleteSelect(p) ==
  /\ pc[p] = "select"
  /\ call[p].op = "delete"
  /\ LET status == DeleteStatus(inventoryItems, call[p].id, call[p].tenantId)
     IN IF status = "ok"
        THEN /\ pc' = [pc EXCEPT ![p] = "update"]
             /\ UNCHANGED <<loc, ret>>
        ELSE Finish(p, Outcome("delete", status))
  /\ UNCHANGED <<inventoryItems, last, store0, call, movementHistory>>

\* DELETE /:id: the DELETE ... WHERE id = :id
DeleteWrite(p) ==
  /\ pc[p] = "update"
  /\ call[p].op = "delete"
  /\ inventoryItems' = [i \in DOMAIN inventoryItems \ {call[p].id} |->
                          inventoryItems[i]]
  /\ Finish(p, Outcome("delete", "ok"))
  /\ UNCHANGED <<last, store0, call, movementHistory>>

NextC ==
  \E p \in Procs :
    \/ Start(p)
    \/ ReserveSelect(p)
    \/ ReserveUpdate(p)
    \/ ReleaseSelect(p)
    \/ ReleaseWrite(p)
    \/ AdjustSelect(p)
    \/ AdjustWrite(p)
    \/ TotalStock(p)
    \/ DeleteSelect(p)
    \/ DeleteWrite(p)

SpecC == InitC /\ [][NextC]_vars

\* ------------------------------------------------------------------ SpecU
\* A caller reserves and then gives the reservation back: one call of
\* reserveInventory, then one call of releaseReservedInventory for every
\* entry of the list it returned, each for the entry's row and quantity,
\* and no other call in between.
InitU ==
  /\ inventoryItems \in Stores
  /\ store0 = inventoryItems
  /\ last = NoCall
  /\ movementHistory = <<>>
  /\ Quiet

\* the call of reserveInventory; the list it returns is kept by the caller
UndoReserve ==
  /\ pc[1] = "idle"
  /\ \E productId \in Products, quantity \in QtyArgs, tenantId \in Tenants :
       \E items \in availableItems(inventoryItems, productId, tenantId) :
         LET r == ReserveLoop(inventoryItems, items, 1, quantity, <<>>)
             out == ReserveOutcome(r.remainingQuantity, r.reservations)
         IN /\ inventoryItems' = r.tbl
            /\ ret' = [ret EXCEPT ![1] = out]
            /\ loc' = [loc EXCEPT ![1].reservations = out.reservations,
                                  ![1].k = 1]
            /\ pc' = [pc EXCEPT ![1] = IF out.status = "ok" THEN "release"
                                                            ELSE "done"]
  /\ UNCHANGED <<last, store0, call, movementHistory>>

\* the call of releaseReservedInventory for the k-th entry of the list
UndoRelease ==
  /\ pc[1] = "release"
  /\ loc[1].k <= Len(loc[1].reservations)
  /\ LET e == loc[1].reservations[loc[1].k]
         status == ReleaseStatus(inventoryItems, e.inventoryItemId, e.quantity)
     IN /\ inventoryItems' =
             IF status = "ok"
             THEN ReleaseUpdate(inventoryItems, inventoryItems[e.inventoryItemId],
                                e.inventoryItemId, e.quantity)
             ELSE inventoryItems
        /\ pc' = [pc EXCEPT ![1] = IF status = "ok" THEN "release" ELSE "thrown"]
        /\ loc' = [loc EXCEPT ![1].k = loc[1].k + 1]
  /\ UNCHANGED <<last, store0, call, ret, movementHistory>>

\* every entry has been released
UndoDone ==
  /\ pc[1] = "release"
  /\ loc[1].k > Len(loc[1].reservations)
  /\ pc' = [pc EXCEPT ![1] = "done"]
  /\ UNCHANGED <<inventoryItems, last, store0, call, loc, ret, movementHistory>>

NextU == UndoReserve \/ UndoRelease \/ UndoDone

SpecU == InitU /\ [][NextU]_vars

\* ============================================================ properties
\* ---- the reading of the contract the claims are held against
\* r1 sorts strictly before r2: earlier expiry, or r1 dated and r2 undated
SortsStrictlyBefore(r1, r2) ==
  /\ r1.expiryDate # NULL
  /\ (r2.expiryDate = NULL \/ r1.expiryDate < r2.expiryDate)

QuantitiesOf(tbl, i) == <<tbl[i].availableQuantity, tbl[i].reservedQuantity>>

SameQuantities(t1, t2) ==
  /\ DOMAIN t1 = DOMAIN t2
  /\ \A i \in DOMAIN t1 : QuantitiesOf(t1, i) = QuantitiesOf(t2, i)

RECURSIVE SumQuantities(_)
SumQuantities(reservations) ==
  IF reservations = <<>> THEN 0
  ELSE Head(reservations).quantity + SumQuantities(Tail(reservations))

\* the step is the run of one call of the named operation
Called(op) == last.op = "none" /\ last'.op = op

\* C1: a reserve of more than the total availableQuantity of the product's
\* rows fails with InsufficientStock and leaves every row's quantities as
\* they were before the call.
C1_AllOrNothingOnShortfall ==
  [][Called("reserve") =>
     \A productId \in Products, quantity \in QtyArgs, tenantId \in Tenants :
       (/\ reserveInventory(productId, quantity, tenantId)
        /\ quantity > TotalAvailable(inventoryItems, productId, tenantId))
       => (/\ last'.status = "InsufficientStock"
           /\ SameQuantities(inventoryItems, inventoryItems'))]_vars

\* C2: availableQuantity + reservedQuantity summed over a product's rows is
\* unchanged by every reserve and release, grows by exactly q on a successful
\* increase, shrinks by exactly q on a successful decrease, and is unchanged
\* by a failing adjust.
C2_Conservation ==
  [][/\ (Called("reserve") \/ Called("release")) =>
          \A p \in Products :
            ProductStock(inventoryItems', p) = ProductStock(inventoryItems, p)
     /\ Called("adjust") =>
          \A p \in Products :
            ProductStock(inventoryItems', p) =
              ProductStock(inventoryItems, p)
              + (IF last'.status = "ok" /\ inventoryItems[last'.id].productId = p
                 THEN (IF last'.adjustmentType = "increase"
                       THEN last'.quantity ELSE 0 - last'.quantity)
                 ELSE 0)]_vars

\* C2 witness: a reserve moved stock on two rows of one product
C2_Witness ==
  /\ last.op = "reserve"
  /\ last.status = "ok"
  /\ Len(last.reservations) = 2
  /\ SumQuantities(last.reservations) >= 2

\* C3: every row has availableQuantity >= 0 and reservedQuantity >= 0 in
\* every reachable state.
C3_NonNegativity ==
  \A i \in DOMAIN inventoryItems :
    /\ inventoryItems[i].availableQuantity >= 0
    /\ inventoryItems[i].reservedQuantity >= 0

\* C5: FEFO.  For two rows r1, r2 of one product and tenant that both had
\* availableQuantity > 0 before a reserve, with r1 sorting strictly before
\* r2, the quantities of r2 change only if r1's availableQuantity is 0
\* after the call.
C5_FefoOrdering ==
  [][Called("reserve") =>
       \A r1, r2 \in DOMAIN inventoryItems :
         (/\ inventoryItems[r1].productId = inventoryItems[r2].productId
          /\ inventoryItems[r1].tenantId = inventoryItems[r2].tenantId
          /\ inventoryItems[r1].availableQuantity > 0
          /\ inventoryItems[r2].availableQuantity > 0
          /\ SortsStrictlyBefore(inventoryItems[r1], inventoryItems[r2])
          /\ QuantitiesOf(inventoryItems', r2) # QuantitiesOf(inventoryItems, r2))
         => inventoryItems'[r1].availableQuantity = 0]_vars

\* C5 witness: a reserve emptied the earlier-expiring row and went on to
\* the later one
C5_Witness ==
  /\ last.op = "reserve"
  /\ last.status = "ok"
  /\ Len(last.reservations) = 2
  /\ LET a == last.reservations[1].inventoryItemId
         b == last.reservations[2].inventoryItemId
     IN /\ SortsStrictlyBefore(inventoryItems[a], inventoryItems[b])
        /\ inventoryItems[a].availableQuantity = 0
        /\ inventoryItems[b].reservedQuantity > 0

\* C6: a reserve that returns successfully returns a non-empty list whose
\* quantities sum to the requested quantity; each entry is the amount moved
\* from availableQuantity to reservedQuantity on its row, and is
\* min(remaining demand at that step, the row's availableQuantity before).
C6_SuccessfulReserveResult ==
  [][Called("reserve") =>
     \A productId \in Products, quantity \in QtyArgs, tenantId \in Tenants :
       (/\ reserveInventory(productId, quantity, tenantId)
        /\ last'.status = "ok")
       => LET res == last'.reservations
          IN /\ Len(res) > 0
             /\ SumQuantities(res) = quantity
             /\ \A k \in 1..Len(res) :
                  LET i == res[k].inventoryItemId
                  IN /\ res[k].quantity =
                          Min(quantity - SumQuantities(SubSeq(res, 1, k - 1)),
                              inventoryItems[i].availableQuantity)
                     /\ res[k].quantity = inventoryItems[i].availableQuantity
                                          - inventoryItems'[i].availableQuantity
                     /\ res[k].quantity = inventoryItems'[i].reservedQuantity
                                          - inventoryItems[i].reservedQuantity]_vars

\* C8: a reserve with quantity <= 0 fails with InvalidArgument and leaves
\* every row unchanged.
C8_ReserveRejectsNonPositive ==
  [][Called("reserve") =>
     \A productId \in Products, quantity \in QtyArgs, tenantId \in Tenants :
       (/\ reserveInventory(productId, quantity, tenantId)
        /\ quantity <= 0)
       => (/\ last'.status = "InvalidArgument"
           /\ inventoryItems' = inventoryItems)]_vars

\* C9: release fails with NotFound when no row has the id and with
\* InvalidArgument when quantity exceeds the row's reservedQuantity; no
\* row's quantities change in either case.
C9_ReleaseFailures ==
  [][Called("release") =>
     \A inventoryItemId \in ItemIds, quantity \in QtyArgs :
       releaseReservedInventory(inventoryItemId, quantity) =>
         /\ inventoryItemId \notin DOMAIN inventoryItems =>
              (last'.status = "NotFound" /\ inventoryItems' = inventoryItems)
         /\ (/\ inventoryItemId \in DOMAIN inventoryItems
             /\ quantity > inventoryItems[inventoryItemId].reservedQuantity) =>
              (last'.status = "InvalidArgument"
               /\ inventoryItems' = inventoryItems)]_vars

\* C9 witness: a release of more than is reserved on a row that holds a
\* reservation was turned down
C9_Witness ==
  /\ last.op = "release"
  /\ last.status = "InvalidArgument"
  /\ \E i \in DOMAIN inventoryItems : inventoryItems[i].reservedQuantity > 0

\* C10: a successful release lowers the addressed row's reservedQuantity by
\* quantity, raises its availableQuantity by quantity, and leaves every
\* other row as it was.
C10_ReleaseEffect ==
  [][Called("release") =>
     \A inventoryItemId \in ItemIds, quantity \in QtyArgs :
       (/\ releaseReservedInventory(inventoryItemId, quantity)
        /\ last'.status = "ok")
       => /\ DOMAIN inventoryItems' = DOMAIN inventoryItems
          /\ inventoryItems'[inventoryItemId].reservedQuantity =
               inventoryItems[inventoryItemId].reservedQuantity - quantity
          /\ inventoryItems'[inventoryItemId].availableQuantity =
               inventoryItems[inventoryItemId].availableQuantity + quantity
          /\ \A j \in DOMAIN inventoryItems \ {inventoryItemId} :
               inventoryItems'[j] = inventoryItems[j]]_vars

\* C10 witness: a release gave units back on one row while another row of
\* the same product holds a reservation
C10_Witness ==
  /\ last.op = "release"
  /\ last.status = "ok"
  /\ \E i, j \in DOMAIN inventoryItems :
       /\ i # j
       /\ inventoryItems[i].productId = inventoryItems[j].productId
       /\ inventoryItems[i].availableQuantity > 0
       /\ inventoryItems[j].reservedQuantity > 0

\* ---- concurrent calls, held against their one-after-the-other execution
\* the tables a call may leave when it runs alone, start to end, on tbl
RunAlone(tbl, c) ==
  IF c.op = "reserve"
  THEN {ReserveLoop(tbl, items, 1, c.quantity, <<>>).tbl :
          items \in availableItems(tbl, c.productId, c.tenantId)}
  ELSE IF c.op = "release"
  THEN {IF ReleaseStatus(tbl, c.id, c.quantity) = "ok"
        THEN ReleaseUpdate(tbl, tbl[c.id], c.id, c.quantity)
        ELSE tbl}
  ELSE IF c.op = "adjust"
  THEN {IF AdjustStatus(tbl, c.id, c.tenantId, c.adjustmentType, c.quantity, 1) = "ok"
        THEN AdjustUpdate(tbl, c.id,
               NewQuantity(tbl[c.id].availableQuantity, c.adjustmentType, c.quantity))
        ELSE tbl}
  ELSE {tbl}

Serial(tbl, c1, c2) == UNION {RunAlone(t, c2) : t \in RunAlone(tbl, c1)}

\* the rows a call reads and writes
Touches(tbl, c) ==
  IF c.op = "reserve" THEN Candidates(tbl, c.productId, c.tenantId)
  ELSE IF c.op \in {"release", "adjust"} THEN {c.id} \cap DOMAIN tbl
  ELSE {}

AllDone == \A p \in Procs : pc[p] = "done"

\* C4: when two mutating calls that touch the same row have run
\* concurrently, every row's final quantities are those of running the two
\* calls one after the other in some order.
C4_NoLostUpdates ==
  (/\ AllDone
   /\ call[1].op \in {"reserve", "release", "adjust"}
   /\ call[2].op \in {"reserve", "release", "adjust"}
   /\ Touches(store0, call[1]) \cap Touches(store0, call[2]) # {})
  => \E t \in Serial(store0, call[1], call[2]) \cup Serial(store0, call[2], call[1]) :
       SameQuantities(t, inventoryItems)

\* the totals a reader may see of a reserve that is all-or-nothing: those of
\* the table before the call, or those after the whole successful call
AtomicViews(tbl, c) ==
  {getTotalStockForProduct(tbl, c.productId, c.tenantId)}
  \cup
  {getTotalStockForProduct(
       ReserveLoop(tbl, items, 1, c.quantity, <<>>).tbl, c.productId, c.tenantId) :
     items \in {i \in availableItems(tbl, c.productId, c.tenantId) :
                  ReserveLoop(tbl, i, 1, c.quantity, <<>>).remainingQuantity <= 0}}

\* C7: a reader running next to a reserve never sees a table in which some
\* but not all of the reserve's row updates are applied, nor any update of
\* a reserve that failed.
C7_NoPartialReservationVisible ==
  \A p, q \in Procs :
    (/\ p # q
     /\ call[p].op = "total" /\ pc[p] = "done"
     /\ call[q].op = "reserve")
    => ret[p] \in AtomicViews(store0, call[q])

\* C11: release reversal.  After a successful reserve, releasing on each row
\* of the returned list exactly the quantity reserved on it, with no other
\* operation in between, goes through for every entry and returns every
\* row's availableQuantity and reservedQuantity to their values before the
\* reserve.
C11_ReleaseReversal ==
  /\ pc[1] # "thrown"
  /\ (pc[1] = "done" /\ ret[1].status = "ok")
       => SameQuantities(store0, inventoryItems)

\* C11 witness: a reserve over two rows has been released entry by entry
C11_Witness ==
  /\ pc[1] = "done"
  /\ ret[1].status = "ok"
  /\ Len(loc[1].reservations) = 2
  /\ loc[1].k = 3

\* ---- POST /:id/adjust, held against every request on every table reached
\* the request body passes the schema: an integer quantity >= 1 and a reason
\* of 1 to 500 characters
WellFormed(quantity, reasonLen) ==
  quantity >= 1 /\ reasonLen >= 1 /\ reasonLen <= 500

AdjustTypes == {"increase", "decrease"}

\* C12: adjustment boundary.  On a row of the caller's tenant with
\* availableQuantity a, a decrease by q succeeds iff q <= a and then leaves
\* availableQuantity a - q (0 when q = a); when q > a it fails with
\* InsufficientStock and availableQuantity stays a.
C12_AdjustmentBoundary ==
  last.op = "none" =>
    \A id \in DOMAIN inventoryItems, body \in AdjustBodies :
      WellFormed(body[1], body[2]) =>
        LET a == inventoryItems[id].availableQuantity
            q == body[1]
            r == AdjustResult(inventoryItems, id, inventoryItems[id].tenantId,
                              "decrease", q, body[2])
        IN /\ (r.response.status = "ok") <=> (q <= a)
           /\ q <= a => r.tbl[id].availableQuantity = a - q
           /\ q > a => /\ r.response.status = "InsufficientStock"
                       /\ r.tbl[id].availableQuantity = a

\* C12 witness: a decrease by the whole availableQuantity went through and
\* left the row at 0
C12_Witness ==
  /\ last.op = "adjust"
  /\ last.status = "ok"
  /\ last.adjustmentType = "decrease"
  /\ inventoryItems[last.id].availableQuantity = 0

\* C13: an adjust, successful or not, leaves the reservedQuantity of every
\* row as it was and changes no row but the one the response names.
C13_AdjustLeavesReserved ==
  [][Called("adjust") =>
       /\ DOMAIN inventoryItems' = DOMAIN inventoryItems
       /\ \A j \in DOMAIN inventoryItems :
            /\ inventoryItems'[j].reservedQuantity =
                 inventoryItems[j].reservedQuantity
            /\ (last'.status # "ok" \/ j # last'.id)
                 => inventoryItems'[j] = inventoryItems[j]]_vars

\* C13 witness: an adjust changed a row that holds a reservation, next to
\* another row
C13_Witness ==
  /\ last.op = "adjust"
  /\ last.status = "ok"
  /\ inventoryItems[last.id].reservedQuantity > 0
  /\ Cardinality(DOMAIN inventoryItems) >= 2

\* C14: a well-formed adjust on an id that no row has, or on a row of a
\* tenant other than the caller's active tenant, fails with NotFound and
\* changes no row.
C14_AdjustNotFound ==
  last.op = "none" =>
    \A id \in ItemIds, activeTenantId \in Tenants,
       adjustmentType \in AdjustTypes, body \in AdjustBodies :
      (/\ WellFormed(body[1], body[2])
       /\ (id \notin DOMAIN inventoryItems
            \/ inventoryItems[id].tenantId # activeTenantId))
      => LET r == AdjustResult(inventoryItems, id, activeTenantId,
                               adjustmentType, body[1], body[2])
         IN /\ r.response.status = "NotFound"
            /\ r.tbl = inventoryItems

\* C14 witness: every id names a row, and an adjust was answered NotFound
\* (the row is another tenant's)
C14_Witness ==
  /\ last.op = "adjust"
  /\ last.status = "NotFound"
  /\ DOMAIN inventoryItems = ItemIds

\* C15: an adjust whose quantity is below 1 or whose reason is empty or
\* longer than 500 characters is rejected with InvalidArgument, whether or
\* not the id names a row, and no row changes.
C15_AdjustValidation ==
  last.op = "none" =>
    \A id \in ItemIds, activeTenantId \in Tenants,
       adjustmentType \in AdjustTypes, body \in AdjustBodies :
      ~WellFormed(body[1], body[2])
      => LET r == AdjustResult(inventoryItems, id, activeTenantId,
                               adjustmentType, body[1], body[2])
         IN /\ r.response.status = "InvalidArgument"
            /\ r.tbl = inventoryItems

\* C15 witness: an adjust was rejected as invalid while the table has rows
C15_Witness ==
  /\ last.op = "adjust"
  /\ last.status = "InvalidArgument"
  /\ DOMAIN inventoryItems # {}

\* ---- POST /, PUT /:id, DELETE /:id
\* C16: deletion guard.  A delete removes the row iff the row exists in the
\* caller's tenant and both its quantities are 0; otherwise it is rejected
\* and the table, the row's quantities included, stays as it was.
C16_DeletionGuard ==
  [][Called("delete") =>
     \A id \in ItemIds, activeTenantId \in Tenants :
       deleteItem(id, activeTenantId) =>
         LET deletable ==
               /\ id \in DOMAIN inventoryItems
               /\ inventoryItems[id].tenantId = activeTenantId
               /\ inventoryItems[id].availableQuantity = 0
               /\ inventoryItems[id].reservedQuantity = 0
         IN /\ (last'.status = "ok") <=> deletable
            /\ deletable =>
                 inventoryItems' = [i \in DOMAIN inventoryItems \ {id} |->
                                      inventoryItems[i]]
            /\ ~deletable => inventoryItems' = inventoryItems]_vars

\* C16 witness: a row was deleted while another row, one that holds a
\* reservation, stays
C16_Witness ==
  /\ last.op = "delete"
  /\ last.status = "ok"
  /\ \E i \in DOMAIN inventoryItems : inventoryItems[i].reservedQuantity > 0

\* the request names the combination the row has; a batch or lot that is
\* absent or null is the one value NoLabel
SameCombination(row, tenantId, body) ==
  /\ row.tenantId = tenantId
  /\ row.productId = body.productId
  /\ row.binId = body.binId
  /\ row.batchNumber = body.batchNumber
  /\ row.lotNumber = body.lotNumber

\* C17: uniqueness on create.  A create whose (tenantId, productId, binId,
\* batchNumber, lotNumber) is that of an existing row is rejected and
\* inserts nothing, an absent or null batchNumber or lotNumber being one
\* value of the key.
C17_UniqueOnCreate ==
  last.op = "none" =>
    \A activeTenantId \in Tenants, body \in CreateBodies :
      (\E i \in DOMAIN inventoryItems :
         SameCombination(inventoryItems[i], activeTenantId, body))
      => LET r == CreateResult(inventoryItems, activeTenantId, body)
         IN /\ r.response.status # "ok"
            /\ r.tbl = inventoryItems

\* C17 witness: a create was turned down while the table holds a row with
\* neither batch nor lot and room for one more row
C17_Witness ==
  /\ last.op = "create"
  /\ last.status = "InvalidArgument"
  /\ Cardinality(DOMAIN inventoryItems) < MaxItems
  /\ \E i \in DOMAIN inventoryItems :
       /\ inventoryItems[i].batchNumber = NoLabel
       /\ inventoryItems[i].lotNumber = NoLabel

\* C18: over reserve, release, adjust and edit, a product's total stock
\* changes only through a successful increase or decrease adjustment, by
\* the adjusted quantity; an edit of a row never changes it.
C18_TotalStockOnlyByAdjust ==
  [][/\ (Called("reserve") \/ Called("release") \/ Called("edit")) =>
          \A p \in Products :
            ProductStock(inventoryItems', p) = ProductStock(inventoryItems, p)
     /\ Called("adjust") =>
          \A p \in Products :
            ProductStock(inventoryItems', p) - ProductStock(inventoryItems, p) =
              (IF last'.status = "ok" /\ inventoryItems[last'.id].productId = p
               THEN NewQuantity(0, last'.adjustmentType, last'.quantity)
               ELSE 0)]_vars

\* the step leaves every row of a tenant other than T in the table and as
\* it was
ForeignUnchanged(T) ==
  \A i \in DOMAIN inventoryItems :
    inventoryItems[i].tenantId # T =>
      (i \in DOMAIN inventoryItems' /\ inventoryItems'[i] = inventoryItems[i])

\* ... and a call for T that names the row of another tenant has failed
Scoped(T, id) ==
  /\ ForeignUnchanged(T)
  /\ (id \in DOMAIN inventoryItems /\ inventoryItems[id].tenantId # T)
       => last'.status # "ok"

\* C19: tenant scoping of mutations.  No reserve, release, adjust, edit or
\* delete made on behalf of tenant T changes or removes a row of another
\* tenant, and a call that names another tenant's row by id fails.  A
\* release is given no tenant, so it stands for a call of either tenant.
C19_TenantScoping ==
  [][\A T \in Tenants :
       /\ Called("reserve") =>
            (ForeignUnchanged(T)
             \/ ~\E p \in Products, q \in QtyArgs : reserveInventory(p, q, T))
       /\ Called("release") =>
            \A id \in ItemIds :
              Scoped(T, id)
              \/ ~\E q \in QtyArgs : releaseReservedInventory(id, q)
       /\ Called("adjust") =>
            \A id \in ItemIds :
              Scoped(T, id)
              \/ ~\E ty \in AdjustTypes, body \in AdjustBodies :
                    adjust(id, T, ty, body[1], body[2])
       /\ Called("edit") =>
            \A id \in ItemIds :
              Scoped(T, id) \/ ~\E body \in EditBodies : editItem(id, T, body)
       /\ Called("delete") =>
            \A id \in ItemIds : Scoped(T, id) \/ ~deleteItem(id, T)]_vars

\* C20: every successful adjust adds exactly one record to the movement
\* history before it reports success, and a failed adjust adds none.
C20_AdjustAudited ==
  [][Called("adjust") =>
       Len(movementHistory') =
         Len(movementHistory) + (IF last'.status = "ok" THEN 1 ELSE 0)]_vars

\* ---- reserveInventory, once more
\* C21: reserve is deterministic.  From one table and one (productId,
\* quantity, tenantId), every execution gives the same result list and
\* leaves the same table, also when candidate rows share an expiryDate or
\* several have none.
C21_ReserveDeterministic ==
  [][Called("reserve") =>
     \A productId \in Products, quantity \in QtyArgs, tenantId \in Tenants :
       reserveInventory(productId, quantity, tenantId) =>
         \A items \in availableItems(inventoryItems, productId, tenantId) :
           LET r == ReserveLoop(inventoryItems, items, 1, quantity, <<>>)
           IN /\ r.tbl = inventoryItems'
              /\ ReserveOutcome(r.remainingQuantity, r.reservations) = last']_vars

\* C26: when a reserve fails with InsufficientStock, the shortfall it
\* reports is the requested quantity minus the total availableQuantity of
\* the candidate rows as the call found them.
C26_ShortfallReported ==
  [][(Called("reserve") /\ last'.status = "InsufficientStock") =>
     \A productId \in Products, quantity \in QtyArgs, tenantId \in Tenants :
       reserveInventory(productId, quantity, tenantId) =>
         last'.remainingQuantity =
           quantity - SumOver(inventoryItems,
                              {i \in RowsOf(inventoryItems, productId, tenantId) :
                                 inventoryItems[i].availableQuantity > 0},
                              "available")]_vars

\* C26 witness: a reserve took what two rows had and failed for the rest
C26_Witness ==
  /\ last.op = "reserve"
  /\ last.status = "InsufficientStock"
  /\ last.remainingQuantity > 0
  /\ \E i, j \in DOMAIN inventoryItems :
       /\ i # j
       /\ inventoryItems[i].productId = inventoryItems[j].productId
       /\ inventoryItems[i].reservedQuantity > 0
       /\ inventoryItems[j].reservedQuantity > 0
       /\ inventoryItems[i].availableQuantity = 0
       /\ inventoryItems[j].availableQuantity = 0

\* the ids of a result list
ReservedIds(reservations) ==
  {reservations[k].inventoryItemId : k \in 1..Len(reservations)}

\* C30: reserve stops as soon as the demand is met and touches nothing
\* else.  Rows with availableQuantity = 0 and rows of other products or
\* tenants keep their quantities and are not in the result; so do, on
\* success, the rows that sort after the row on which the demand was met
\* and every row not in the result; and the result of a call with
\* quantity > 0 has no entry of quantity 0.
C30_ReserveStopsWhenMet ==
  [][Called("reserve") =>
     \A productId \in Products, quantity \in QtyArgs, tenantId \in Tenants :
       reserveInventory(productId, quantity, tenantId) =>
         LET res == last'.reservations
         IN /\ \A i \in DOMAIN inventoryItems :
                 (\/ inventoryItems[i].availableQuantity = 0
                  \/ inventoryItems[i].productId # productId
                  \/ inventoryItems[i].tenantId # tenantId)
                 => (/\ inventoryItems'[i] = inventoryItems[i]
                     /\ i \notin ReservedIds(res))
            /\ last'.status = "ok" =>
                 /\ \A i \in DOMAIN inventoryItems \ ReservedIds(res) :
                      inventoryItems'[i] = inventoryItems[i]
                 /\ Len(res) > 0 =>
                      \A i \in DOMAIN inventoryItems :
                        SortsStrictlyBefore(
                          inventoryItems[res[Len(res)].inventoryItemId],
                          inventoryItems[i])
                        => (/\ inventoryItems'[i] = inventoryItems[i]
                            /\ i \notin ReservedIds(res))
                 /\ quantity > 0 =>
                      \A k \in 1..Len(res) : res[k].quantity > 0]_vars

\* C30 witness: a reserve met its demand on the earlier-expiring row and
\* left a later one of the same product, which has stock, as it was
C30_Witness ==
  /\ last.op = "reserve"
  /\ last.status = "ok"
  /\ Len(last.reservations) = 1
  /\ \E i \in DOMAIN inventoryItems :
       LET m == last.reservations[1].inventoryItemId
       IN /\ i # m
          /\ inventoryItems[i].productId = inventoryItems[m].productId
          /\ SortsStrictlyBefore(inventoryItems[m], inventoryItems[i])
          /\ inventoryItems[i].availableQuantity > 0
          /\ inventoryItems[i].reservedQuantity = 0

\* ------------------------------------------------------------------ SpecQ
\* The read-only queries of InventoryService: one query is asked of a store
\* and its answer kept in ret[1]; what the query read besides the inventory
\* rows (the product row, the clock) is kept in loc[1].

\* products.minimum_stock_level is a nullable integer column
NoLevel == 0 - 1
MinimumLevels == {NoLevel} \cup 0..MaxStock

\* the days argument, and the dates the clock may show
DaysArgs == 0..1
Today == Dates

\* JavaScript's Number() of a sum() column: null is 0, a numeric string its value
Number(v) == IF v = SqlNull THEN 0 ELSE v[1]

\* `x || 0` of a nullable integer
OrZero(v) == IF v = NoLevel THEN 0 ELSE v

\* SELECT minimumStockLevel FROM products WHERE id AND tenantId LIMIT 1,
\* the product's column holding minimumStockLevel
productResult(productId, tenantId, minimumStockLevel) ==
  IF products[productId] = tenantId
  THEN <<[minimumStockLevel |-> minimumStockLevel]>>
  ELSE <<>>

\* slip: available < minimumLevel
isProductLowStock_Strict(tbl, productId, tenantId, minimumStockLevel) ==
  LET stockResult == getTotalStockForProduct(tbl, productId, tenantId)
      rows == productResult(productId, tenantId, minimumStockLevel)
  IN IF Len(rows) = 0
     THEN FALSE
     ELSE Number(stockResult.totalAvailable)
            < OrZero(rows[1].minimumStockLevel)

\* slip: a product without a minimum is answered like a missing product
isProductLowStock_NoLevelNotLow(tbl, productId, tenantId, minimumStockLevel) ==
  LET stockResult == getTotalStockForProduct(tbl, productId, tenantId)
      rows == productResult(productId, tenantId, minimumStockLevel)
  IN IF Len(rows) = 0 \/ rows[1].minimumStockLevel = NoLevel
     THEN FALSE
     ELSE Number(stockResult.totalAvailable) <= rows[1].minimumStockLevel

isProductLowStock(tbl, productId, tenantId, minimumStockLevel) ==
  LET stockResult == getTotalStockForProduct(tbl, productId, tenantId)
      rows == productResult(productId, tenantId, minimumStockLevel)
  IN IF Len(rows) = 0
     THEN FALSE
     ELSE Number(stockResult.totalAvailable)
            <= OrZero(rows[1].minimumStockLevel)

\* a row of the expiry query's answer
ExpiringRow(tbl, i) ==
  [id |-> i, productId |-> tbl[i].productId,
   availableQuantity |-> tbl[i].availableQuantity,
   expiryDate |-> tbl[i].expiryDate]

\* slip: the WHERE has no `availableQuantity > 0`
getItemsExpiringSoon_AnyQuantity(tbl, tenantId, futureDate) ==
  {ExpiringRow(tbl, i) : i \in
     {j \in DOMAIN tbl :
        /\ tbl[j].tenantId = tenantId
        /\ tbl[j].expiryDate # NULL
        /\ tbl[j].expiryDate <= futureDate}}

\* The rows come in no stated order; products.id is the primary key, so the
\* LEFT JOIN neither drops nor repeats an inventory row.
getItemsExpiringSoon(tbl, tenantId, futureDate) ==
  {ExpiringRow(tbl, i) : i \in
     {j \in DOMAIN tbl :
        /\ tbl[j].tenantId = tenantId
        /\ tbl[j].expiryDate # NULL
        /\ tbl[j].expiryDate <= futureDate
        /\ tbl[j].availableQuantity > 0}}

\* the request and the answer of a query
Query(op, productId, tenantId, days) ==
  [NoRequest EXCEPT !.op = op, !.productId = productId,
                    !.tenantId = tenantId, !.quantity = days]

Answer(value, read) ==
  /\ ret' = [ret EXCEPT ![1] = value]
  /\ loc' = [loc EXCEPT ![1] = read]
  /\ pc' = [pc EXCEPT ![1] = "done"]
  /\ UNCHANGED <<inventoryItems, last, store0, movementHistory>>

TotalStockQuery ==
  /\ pc[1] = "idle"
  /\ \E productId \in Products, tenantId \in Tenants :
       /\ call' = [call EXCEPT ![1] = Query("total", productId, tenantId, 0)]
       /\ Answer(getTotalStockForProduct(inventoryItems, productId, tenantId),
                 NoLocals)

LowStockQuery ==
  /\ pc[1] = "idle"
  /\ \E productId \in Products, tenantId \in Tenants,
        minimumStockLevel \in MinimumLevels :
       /\ call' = [call EXCEPT ![1] = Query("lowStock", productId, tenantId, 0)]
       /\ Answer(isProductLowStock(inventoryItems, productId, tenantId,
                                   minimumStockLevel),
                 [productResult |->
                    productResult(productId, tenantId, minimumStockLevel)])

\* futureDate is the clock's date plus days
ExpiringQuery ==
  /\ pc[1] = "idle"
  /\ \E tenantId \in Tenants, days \in DaysArgs, today \in Today :
       /\ call' = [call EXCEPT ![1] = Query("expiring", "none", tenantId, days)]
       /\ Answer(getItemsExpiringSoon(inventoryItems, tenantId, today + days),
                 [futureDate |-> today + days])

NextQ == TotalStockQuery \/ LowStockQuery \/ ExpiringQuery

SpecQ == Init /\ [][NextQ]_vars

\* the query that was answered
Asked(op) == pc[1] = "done" /\ call[1].op = op

\* v is the number n, or the numeric string of n (never null)
Denotes(v, n) == v # SqlNull /\ v[1] = n

\* C22: totalStockForProduct answers the sums of availableQuantity and
\* reservedQuantity over the rows of the product and tenant, and 0 and 0
\* (not null) when there is no such row.
C22_TotalsOrZero ==
  Asked("total") =>
    LET rows == RowsOf(inventoryItems, call[1].productId, call[1].tenantId)
    IN /\ Denotes(ret[1].totalAvailable,
                  SumOver(inventoryItems, rows, "available"))
       /\ Denotes(ret[1].totalReserved,
                  SumOver(inventoryItems, rows, "reserved"))

\* the minimumStockLevel the low-stock query read
LevelRead == loc[1].productResult[1].minimumStockLevel

\* the low-stock query was asked of a product of the tenant
AskedLowStock ==
  /\ Asked("lowStock")
  /\ products[call[1].productId] = call[1].tenantId

\* C23: isLowStock is true exactly when the product's total
\* availableQuantity in the tenant is <= its minimumStockLevel, a missing
\* minimumStockLevel counting as 0.
C23_LowStockIff ==
  AskedLowStock =>
    (ret[1] <=>
       TotalAvailable(inventoryItems, call[1].productId, call[1].tenantId)
         <= (IF LevelRead = NoLevel THEN 0 ELSE LevelRead))

\* C23 witness: a product whose stock equals its minimum is reported
C23_Witness ==
  /\ AskedLowStock
  /\ LevelRead > 0
  /\ TotalAvailable(inventoryItems, call[1].productId, call[1].tenantId)
       = LevelRead
  /\ ret[1] = TRUE

\* C24 as stated: a product with no minimumStockLevel is never reported
\* low-stock, also when its total availableQuantity is 0 or it has no row.
C24_NoLevelNeverLow ==
  (AskedLowStock /\ LevelRead = NoLevel) => ret[1] = FALSE

\* C24 amended: a product with no minimumStockLevel is reported low-stock
\* exactly when its total availableQuantity is 0 or less, which includes
\* the product without rows, and never while it has stock available.
C24_NoLevelLowWhenEmpty ==
  (AskedLowStock /\ LevelRead = NoLevel) =>
    (ret[1] <=>
       TotalAvailable(inventoryItems, call[1].productId, call[1].tenantId) <= 0)

\* C24 witness: a product with no minimum and no row is reported
C24_Witness ==
  /\ AskedLowStock
  /\ LevelRead = NoLevel
  /\ RowsOf(inventoryItems, call[1].productId, call[1].tenantId) = {}
  /\ ret[1] = TRUE

\* C25: itemsExpiringWithin answers exactly the tenant's rows that have an
\* expiryDate, expire on or before today + days and have
\* availableQuantity > 0.
C25_ExpiringExactly ==
  Asked("expiring") =>
    {r.id : r \in ret[1]} =
      {i \in DOMAIN inventoryItems :
         /\ inventoryItems[i].tenantId = call[1].tenantId
         /\ inventoryItems[i].expiryDate # NULL
         /\ inventoryItems[i].expiryDate <= loc[1].futureDate
         /\ inventoryItems[i].availableQuantity > 0}

\* C25 witness: of three kinds of row (expiring with stock, expiring
\* without stock or expiring later, undated) the answer holds the first
C25_Witness ==
  /\ Asked("expiring")
  /\ Cardinality(ret[1]) = 1
  /\ Cardinality(DOMAIN inventoryItems) = MaxItems
  /\ \E i \in DOMAIN inventoryItems :
       /\ i \notin {r.id : r \in ret[1]}
       /\ inventoryItems[i].tenantId = call[1].tenantId

\* ---- concurrent calls, once more
\* the quantity a call's result list reports for row i
ReportedFor(outcome, i) ==
  LET res == outcome.reservations
      at == {k \in 1..Len(res) : res[k].inventoryItemId = i}
  IN IF outcome.status # "ok" \/ at = {} THEN 0
     ELSE res[CHOOSE k \in at : TRUE].quantity

\* C27: no double allocation.  When two reserves of one product have run
\* concurrently and both succeeded, each row's reservedQuantity has grown
\* by the sum of the quantities the two result lists report for the row,
\* and the two lists together promise no more than the stock that was
\* available.
C27_NoDoubleAllocation ==
  (/\ AllDone
   /\ \A p \in Procs : call[p].op = "reserve" /\ ret[p].status = "ok")
  => /\ \A i \in DOMAIN store0 :
          inventoryItems[i].reservedQuantity - store0[i].reservedQuantity
            = ReportedFor(ret[1], i) + ReportedFor(ret[2], i)
     /\ SumQuantities(ret[1].reservations) + SumQuantities(ret[2].reservations)
          <= TotalAvailable(store0, "p1", "t1")

\* C28: in every state no two rows share tenantId, productId, binId,
\* batchNumber and lotNumber (absent labels equal to absent), whatever
\* creates and edits have run.
C28_UniqueCombination ==
  \A i, j \in DOMAIN inventoryItems :
    (/\ i # j
     /\ inventoryItems[i].tenantId = inventoryItems[j].tenantId
     /\ inventoryItems[i].productId = inventoryItems[j].productId
     /\ inventoryItems[i].binId = inventoryItems[j].binId)
    => \/ inventoryItems[i].batchNumber # inventoryItems[j].batchNumber
       \/ inventoryItems[i].lotNumber # inventoryItems[j].lotNumber

\* C29: a row is removed only when its availableQuantity and
\* reservedQuantity are both 0 at the moment it is removed, also when the
\* delete runs next to another call on the row.
C29_DeletedRowsAreEmpty ==
  [][\A i \in DOMAIN inventoryItems \ DOMAIN inventoryItems' :
       /\ inventoryItems[i].availableQuantity = 0
       /\ inventoryItems[i].reservedQuantity = 0]_vars

====
